---- MODULE Spec2Model ----
(***************************************************************************)
(* Air-quality alert pipeline: the scheduled sweep                         *)
(* checkAirQualityAndAlert (services/alertService.js), the classifier      *)
(* getAqiCategory (services/aqiService.js), the push transport             *)
(* sendPushNotification (services/notificationService.js) and the          *)
(* subscriber-facing routes that touch the same documents                  *)
(* (routes/alerts.js, routes/users.js).                                    *)
(*                                                                         *)
(* Every `await` of the sweep is a point where other handlers and other    *)
(* sweeps may run, so each awaited operation is one action.  The code that *)
(* runs synchronously after an await resolves (the threshold test, the     *)
(* channel tests, the loop bookkeeping) belongs to the action of that      *)
(* await.                                                                  *)
(***************************************************************************)
EXTENDS Integers, Sequences, FiniteSets, TLC

\* ------------------------------------------------------------------ bounds
\* MaxSweeps: firings of the scheduler while HTTP requests are served (Spec)
\* MaxCycles: firings of the scheduler with the sweeps alone (SpecSweeps)
\* MaxRequests: HTTP requests served
\* MaxAqi: largest index value handed to the classifier (SpecClassify)
\* MaxRepeats: firings of the scheduler over one location (SpecRepeat)
\* MaxAdds: POST /locations requests of one subscriber (SpecLocations)
MaxSweeps == 1
MaxCycles == 2
MaxRepeats == 2
MaxAdds == 3
MaxRequests == 1
MaxAqi == 520

\* ------------------------------------------------ program constants, tables
DefaultThreshold == 100

AQI_CATEGORIES ==
  << [max |-> 50,  category |-> "Good",                           color |-> "#00E400"],
     [max |-> 100, category |-> "Moderate",                       color |-> "#FFFF00"],
     [max |-> 150, category |-> "Unhealthy for Sensitive Groups", color |-> "#FF7E00"],
     [max |-> 200, category |-> "Unhealthy",                      color |-> "#FF0000"],
     [max |-> 300, category |-> "Very Unhealthy",                 color |-> "#8F3F97"],
     [max |-> 500, category |-> "Hazardous",                      color |-> "#7E0023"] >>

Extreme == [category |-> "Extreme", color |-> "#7E0023"]

\* mutant: the comparison of the loop is strict
RECURSIVE CategoryFrom_lt(_, _)
CategoryFrom_lt(aqiValue, i) ==
  IF i > Len(AQI_CATEGORIES) THEN Extreme
  ELSE IF aqiValue < AQI_CATEGORIES[i].max
       THEN [category |-> AQI_CATEGORIES[i].category, color |-> AQI_CATEGORIES[i].color]
       ELSE CategoryFrom_lt(aqiValue, i + 1)

getAqiCategory_lt(aqiValue) == CategoryFrom_lt(aqiValue, 1)

\* mutant: the comparison of the loop is reversed
RECURSIVE CategoryFrom_ge(_, _)
CategoryFrom_ge(aqiValue, i) ==
  IF i > Len(AQI_CATEGORIES) THEN Extreme
  ELSE IF aqiValue >= AQI_CATEGORIES[i].max
       THEN [category |-> AQI_CATEGORIES[i].category, color |-> AQI_CATEGORIES[i].color]
       ELSE CategoryFrom_ge(aqiValue, i + 1)

getAqiCategory_ge(aqiValue) == CategoryFrom_ge(aqiValue, 1)

\* the for-loop of getAqiCategory from table entry i on
RECURSIVE CategoryFrom(_, _)
CategoryFrom(aqiValue, i) ==
  IF i > Len(AQI_CATEGORIES) THEN Extreme
  ELSE IF aqiValue <= AQI_CATEGORIES[i].max
       THEN [category |-> AQI_CATEGORIES[i].category, color |-> AQI_CATEGORIES[i].color]
       ELSE CategoryFrom(aqiValue, i + 1)

getAqiCategory(aqiValue) == CategoryFrom(aqiValue, 1)

\* ------------------------------------------------------ the modelled world
UserIds == {1, 2}
UserOrder == <<1, 2>>          \* the order in which User.find() yields them
\* the users who have registered locations and change their preferences
Subscribers == {1}
\* the readings the source answers with, one per sweep, in the three-cycle
\* scenario
ScenarioReadings == <<80, 120, 90>>

Largest(S) == CHOOSE n \in S : \A m \in S : m <= n
SweepIds == 1..Largest({MaxCycles, MaxSweeps, MaxRepeats, Len(ScenarioReadings)})

\* index values the reading source may answer with
AqiValues == {40, 100}
\* values a subscriber may send as threshold
Thresholds == {150}
Pollutants == {"pm25"}

\* the POST /locations requests of subscriber 1 and the names they carry
AddIds == 1..MaxAdds
AddNames == <<"C", "D", "E", "F">>
NoAdds == [r \in AddIds |-> [pc |-> "idle", name |-> "none", isPrimary |-> FALSE]]

NoData == [value |-> -1, category |-> "none", pollutant |-> "none", source |-> "none"]
NoSnapshot == <<>>

VARIABLES
  users,      \* User collection: id -> document
  history,    \* AqiHistory collection, in insertion order
  alerts,     \* Alert collection: set of documents
  nextId,     \* next Alert _id
  started,    \* number of times the scheduler has fired the job
  pc,         \* per sweep: the await it is suspended at
  snap,       \* per sweep: `users`, the result of User.find()
  pi,         \* per sweep: position in the two nested for-loops
  aqiData,    \* per sweep: `aqiData` of the current pair
  alertId,    \* per sweep: `alert._id` of the current pair
  ti,         \* per sweep: position in the loop over user.deviceTokens
  err,        \* per sweep: the stage whose error reached the catch block
  fetched,    \* record of successful fetches, per sweep and pair
  recorded,   \* record of history writes, per sweep and pair
  raised,     \* record of alert writes, per sweep and pair
  pushed,     \* record of calls of admin.messaging().send
  reqs,       \* number of HTTP requests served
  alive,      \* the server process is running
  adds,       \* per POST /locations request: its body and the await it is at
  v1, v2,     \* classifier harness: two index values
  c1, c2      \* classifier harness: their categories

dbVars == <<users, history, alerts, nextId>>
sweepVars == <<started, pc, snap, pi, aqiData, alertId, ti, err>>
logVars == <<fetched, recorded, raised, pushed>>
envVars == <<reqs, alive, adds>>
classVars == <<v1, v2, c1, c2>>
vars == <<dbVars, sweepVars, logVars, envVars, classVars>>

\* ---------------------------------------------------------------- helpers
\* the (user, location) pairs in the order of the two nested for-loops
RECURSIVE PairsFrom(_, _)
PairsFrom(sn, k) ==
  IF k > Len(UserOrder) THEN << >>
  ELSE LET u == UserOrder[k]
       IN [i \in 1..Len(sn[u].locations) |-> [u |-> u, loc |-> sn[u].locations[i]]]
          \o PairsFrom(sn, k + 1)

Pairs(sn) == PairsFrom(sn, 1)

CurPair(s) == Pairs(snap[s])[pi[s]]
CurUser(s) == snap[s][CurPair(s).u]

\* The repository holds two Alert schemas.  The sweep and the alert routes
\* use the fields of the one beside them (userId, location, aqi, message,
\* recommendations, acknowledged); the other one declares alertType, status
\* and deliveryMethods.  The sweep builds its Alert from {userId, location,
\* aqi, message, recommendations} only, so status and deliveryMethods hold
\* their schema defaults in every document it writes and alertType is not
\* a field of the document at all.  A save the second schema would reject
\* is a failed alert save (SaveAlertFail).
StatusDefault == "created"
DeliveryMethodsDefault == [push |-> FALSE, email |-> FALSE, sms |-> FALSE]

\* mutant: an Alert is born acknowledged
NewAlert_acked(id, userId, location, aqi) ==
  [id |-> id, userId |-> userId, location |-> location,
   aqi |-> [value |-> aqi.value, category |-> aqi.category, pollutant |-> aqi.pollutant],
   acknowledged |-> TRUE, status |-> StatusDefault,
   deliveryMethods |-> DeliveryMethodsDefault]

\* new Alert({userId, location, aqi, message, recommendations}); message
\* and recommendations are functions of aqi and location and are not
\* stored separately here
NewAlert(id, userId, location, aqi) ==
  [id |-> id, userId |-> userId, location |-> location,
   aqi |-> [value |-> aqi.value, category |-> aqi.category, pollutant |-> aqi.pollutant],
   acknowledged |-> FALSE,
   status |-> StatusDefault,
   deliveryMethods |-> DeliveryMethodsDefault]

\* alert.alertType as a reader of the document sees it
AlertTypeOf(a) == IF "alertType" \in DOMAIN a THEN a.alertType ELSE "undefined"

NewHistory(userId, location, aqi) ==
  [userId |-> userId, location |-> location, aqi |-> aqi]

\* UserSchema defaults of alertPreferences
DefaultMethods == [pushNotification |-> TRUE, email |-> FALSE]
DefaultPreferences == [threshold |-> DefaultThreshold, notificationMethods |-> DefaultMethods]

\* a User document as a query hands it to the code: paths that are missing
\* in the stored document carry their schema default
HydratePreferences(p) ==
  [threshold |-> IF "threshold" \in DOMAIN p THEN p.threshold ELSE DefaultThreshold,
   notificationMethods |->
     IF "notificationMethods" \in DOMAIN p THEN p.notificationMethods ELSE DefaultMethods]

Hydrate(doc) == [doc EXCEPT !.alertPreferences = HydratePreferences(doc.alertPreferences)]

InitUser1 ==
  [locations |-> <<"A", "B">>, alertPreferences |-> DefaultPreferences,
   deviceTokens |-> <<"t1", "t2">>]
InitUser2 ==
  [locations |-> << >>, alertPreferences |-> DefaultPreferences,
   deviceTokens |-> << >>]

MainInit ==
  /\ users = (1 :> InitUser1) @@ (2 :> InitUser2)
  /\ history = << >>
  /\ alerts = {}
  /\ nextId = 1
  /\ started = 0
  /\ pc = [s \in SweepIds |-> "idle"]
  /\ snap = [s \in SweepIds |-> NoSnapshot]
  /\ pi = [s \in SweepIds |-> 0]
  /\ aqiData = [s \in SweepIds |-> NoData]
  /\ alertId = [s \in SweepIds |-> 0]
  /\ ti = [s \in SweepIds |-> 0]
  /\ err = [s \in SweepIds |-> "none"]
  /\ fetched = {}
  /\ recorded = {}
  /\ raised = {}
  /\ pushed = {}
  /\ reqs = 0
  /\ alive = TRUE
  /\ adds = NoAdds

Init ==
  /\ MainInit
  /\ v1 = 0 /\ v2 = 0 /\ c1 = "none" /\ c2 = "none"

\* ------------------------------------------------- the sweep, await by await
\* mutant: the threshold test is strict
ExceedsThreshold_gt(aqi, user) == aqi.value > user.alertPreferences.threshold

\* mutant: the threshold test is dropped
ExceedsThreshold_always(aqi, user) == TRUE

\* mutant: the comparison is turned around
ExceedsThreshold_le(aqi, user) == aqi.value <= user.alertPreferences.threshold

\* mutant: no Alert for a reading an earlier stored Alert already carries
ExceedsThreshold_suppress(aqi, user) ==
  /\ aqi.value >= user.alertPreferences.threshold
  /\ ~\E a \in alerts : a.aqi.value = aqi.value

\* if (aqiData.value >= user.alertPreferences.threshold)
ExceedsThreshold(aqi, user) == aqi.value >= user.alertPreferences.threshold

\* mutant: the notificationMethods flag is not consulted
PushEnabled_anyToken(user) == Len(user.deviceTokens) > 0

\* if (...pushNotification && user.deviceTokens.length > 0)
PushEnabled(user) ==
  /\ user.alertPreferences.notificationMethods.pushNotification
  /\ Len(user.deviceTokens) > 0

\* the loops move on to the next pair, or the function returns
NextPc(s) == IF pi[s] + 1 > Len(Pairs(snap[s])) THEN "done" ELSE "fetch"

\* mutant: a rejected fetch is logged and the loop body carries on
Fail_continue(s, stage) ==
  /\ pc' = [pc EXCEPT ![s] = IF stage = "fetch" THEN "history" ELSE "failed"]
  /\ err' = [err EXCEPT ![s] = stage]

\* mutant: a rejected send is logged and the sweep goes back to its loops
Fail_pushContained(s, stage) ==
  /\ pc' = [pc EXCEPT ![s] = IF stage = "push" THEN "fetch" ELSE "failed"]
  /\ err' = [err EXCEPT ![s] = stage]

\* mutant: the catch block logs the error and returns
Fail_swallow(s, stage) ==
  /\ pc' = [pc EXCEPT ![s] = "done"]
  /\ err' = [err EXCEPT ![s] = stage]

\* catch (error) { console.error(...); throw error; }: the invocation ends
\* rejected with the error of the stage that failed
Fail(s, stage) ==
  /\ pc' = [pc EXCEPT ![s] = "failed"]
  /\ err' = [err EXCEPT ![s] = stage]

\* mutant: the job is skipped while an earlier invocation is running
Trigger_skipIfRunning(limit) ==
  /\ started < limit
  /\ \A s \in SweepIds : pc[s] \in {"idle", "done", "failed"}
  /\ started' = started + 1
  /\ pc' = [pc EXCEPT ![started + 1] = "find"]
  /\ UNCHANGED <<snap, pi, aqiData, alertId, ti, err>>
  /\ UNCHANGED <<dbVars, logVars, envVars, classVars>>

\* schedule.scheduleJob fires the job, whether or not an earlier invocation
\* is still running: a new invocation starts and is suspended at
\* `await User.find()`
Trigger(limit) ==
  /\ started < limit
  /\ started' = started + 1
  /\ pc' = [pc EXCEPT ![started + 1] = "find"]
  /\ UNCHANGED <<snap, pi, aqiData, alertId, ti, err>>
  /\ UNCHANGED <<dbVars, logVars, envVars, classVars>>

\* User.find() resolves
FindUsers(s) ==
  /\ pc[s] = "find"
  /\ LET sn == [u \in UserIds |-> Hydrate(users[u])]
     IN /\ snap' = [snap EXCEPT ![s] = sn]
        /\ pi' = [pi EXCEPT ![s] = 1]
        /\ pc' = [pc EXCEPT ![s] = IF Len(Pairs(sn)) = 0 THEN "done" ELSE "fetch"]
  /\ UNCHANGED <<started, aqiData, alertId, ti, err>>
  /\ UNCHANGED <<dbVars, logVars, envVars, classVars>>

\* User.find() rejects
FindUsersFail(s) ==
  /\ pc[s] = "find"
  /\ Fail(s, "find")
  /\ UNCHANGED <<started, snap, pi, aqiData, alertId, ti>>
  /\ UNCHANGED <<dbVars, logVars, envVars, classVars>>

\* mutant: the threshold branch runs right after the fetch, before the
\* history save
FetchOk_toAlert(s, v, pol) ==
  /\ pc[s] = "fetch"
  /\ LET d == [value |-> v, category |-> getAqiCategory(v).category,
               pollutant |-> pol, source |-> "WAQI"]
     IN /\ aqiData' = [aqiData EXCEPT ![s] = d]
        /\ fetched' = fetched \cup
             {[s |-> s, u |-> CurPair(s).u, loc |-> CurPair(s).loc, value |-> v]}
        /\ pc' = [pc EXCEPT ![s] = IF ExceedsThreshold(d, CurUser(s))
                                    THEN "alert" ELSE "history"]
  /\ UNCHANGED <<started, snap, pi, alertId, ti, err>>
  /\ UNCHANGED <<dbVars, recorded, raised, pushed, envVars, classVars>>

\* fetchAqiData resolves with a reading of index value v
FetchOk(s, v, pol) ==
  /\ pc[s] = "fetch"
  /\ LET d == [value |-> v, category |-> getAqiCategory(v).category,
               pollutant |-> pol, source |-> "WAQI"]
     IN /\ aqiData' = [aqiData EXCEPT ![s] = d]
        /\ fetched' = fetched \cup
             {[s |-> s, u |-> CurPair(s).u, loc |-> CurPair(s).loc, value |-> v]}
  /\ pc' = [pc EXCEPT ![s] = "history"]
  /\ UNCHANGED <<started, snap, pi, alertId, ti, err>>
  /\ UNCHANGED <<dbVars, recorded, raised, pushed, envVars, classVars>>

\* fetchAqiData rejects (network error or status other than 'ok'); the
\* error is rethrown and reaches the catch block of the sweep
FetchFail(s) ==
  /\ pc[s] = "fetch"
  /\ Fail(s, "fetch")
  /\ UNCHANGED <<started, snap, pi, aqiData, alertId, ti>>
  /\ UNCHANGED <<dbVars, logVars, envVars, classVars>>

\* mutant: the history write sits inside the threshold branch
HistoryAfterSave_inBranch(s) ==
  IF ExceedsThreshold(aqiData[s], CurUser(s))
  THEN Append(history, NewHistory(CurPair(s).u, CurPair(s).loc, aqiData[s]))
  ELSE history

\* mutant: the document is saved twice
HistoryAfterSave_twice(s) ==
  Append(Append(history, NewHistory(CurPair(s).u, CurPair(s).loc, aqiData[s])),
         NewHistory(CurPair(s).u, CurPair(s).loc, aqiData[s]))

\* mutant: a reading equal to one already stored is not stored again
HistoryAfterSave_dedup(s) ==
  IF \E i \in DOMAIN history :
       history[i] = NewHistory(CurPair(s).u, CurPair(s).loc, aqiData[s])
  THEN history
  ELSE Append(history, NewHistory(CurPair(s).u, CurPair(s).loc, aqiData[s]))

\* new AqiHistory({userId, location, aqi}).save()
HistoryAfterSave(s) ==
  Append(history, NewHistory(CurPair(s).u, CurPair(s).loc, aqiData[s]))

\* the history save resolves; the threshold test runs and either the
\* alert save is issued or the loops move on
SaveHistory(s) ==
  /\ pc[s] = "history"
  /\ history' = HistoryAfterSave(s)
  /\ recorded' = recorded \cup
       {[s |-> s, u |-> CurPair(s).u, loc |-> CurPair(s).loc, value |-> aqiData[s].value]}
  /\ IF ExceedsThreshold(aqiData[s], CurUser(s))
     THEN /\ pc' = [pc EXCEPT ![s] = "alert"]
          /\ pi' = pi
     ELSE /\ pc' = [pc EXCEPT ![s] = NextPc(s)]
          /\ pi' = [pi EXCEPT ![s] = pi[s] + 1]
  /\ UNCHANGED <<started, snap, aqiData, alertId, ti, err>>
  /\ UNCHANGED <<users, alerts, nextId, fetched, raised, pushed, envVars, classVars>>

SaveHistoryFail(s) ==
  /\ pc[s] = "history"
  /\ Fail(s, "history")
  /\ UNCHANGED <<started, snap, pi, aqiData, alertId, ti>>
  /\ UNCHANGED <<dbVars, logVars, envVars, classVars>>

\* the alert save resolves; the push test runs and either the first send
\* is issued or (the email branch being empty) the loops move on
SaveAlert(s) ==
  /\ pc[s] = "alert"
  /\ alerts' = alerts \cup {NewAlert(nextId, CurPair(s).u, CurPair(s).loc, aqiData[s])}
  /\ nextId' = nextId + 1
  /\ alertId' = [alertId EXCEPT ![s] = nextId]
  /\ raised' = raised \cup
       {[s |-> s, u |-> CurPair(s).u, loc |-> CurPair(s).loc,
         value |-> aqiData[s].value, id |-> nextId]}
  /\ IF PushEnabled(CurUser(s))
     THEN /\ pc' = [pc EXCEPT ![s] = "push"]
          /\ ti' = [ti EXCEPT ![s] = 1]
          /\ pi' = pi
     ELSE /\ pc' = [pc EXCEPT ![s] = NextPc(s)]
          /\ pi' = [pi EXCEPT ![s] = pi[s] + 1]
          /\ ti' = ti
  /\ UNCHANGED <<started, snap, aqiData, err>>
  /\ UNCHANGED <<users, history, fetched, recorded, pushed, envVars, classVars>>

SaveAlertFail(s) ==
  /\ pc[s] = "alert"
  /\ Fail(s, "alert")
  /\ UNCHANGED <<started, snap, pi, aqiData, alertId, ti>>
  /\ UNCHANGED <<dbVars, logVars, envVars, classVars>>

\* sendPushNotification(token, ...) resolves
SendPush(s) ==
  /\ pc[s] = "push"
  /\ pushed' = pushed \cup
       {[s |-> s, id |-> alertId[s], token |-> CurUser(s).deviceTokens[ti[s]], ok |-> TRUE]}
  /\ IF ti[s] < Len(CurUser(s).deviceTokens)
     THEN /\ ti' = [ti EXCEPT ![s] = ti[s] + 1]
          /\ UNCHANGED <<pc, pi>>
     ELSE /\ pc' = [pc EXCEPT ![s] = NextPc(s)]
          /\ pi' = [pi EXCEPT ![s] = pi[s] + 1]
          /\ ti' = ti
  /\ UNCHANGED <<started, snap, aqiData, alertId, err>>
  /\ UNCHANGED <<dbVars, fetched, recorded, raised, envVars, classVars>>

\* admin.messaging().send rejects; sendPushNotification rethrows and the
\* error reaches the catch block of the sweep
SendPushFail(s) ==
  /\ pc[s] = "push"
  /\ pushed' = pushed \cup
       {[s |-> s, id |-> alertId[s], token |-> CurUser(s).deviceTokens[ti[s]], ok |-> FALSE]}
  /\ Fail(s, "push")
  /\ UNCHANGED <<started, snap, pi, aqiData, alertId, ti>>
  /\ UNCHANGED <<dbVars, fetched, recorded, raised, envVars, classVars>>

\* --------------------------------------------------------- HTTP handlers
\* mutant: acknowledging also marks the alert read
AckUpdate_read(a) == [a EXCEPT !.acknowledged = TRUE, !.status = "read"]

\* mutant: acknowledging re-reads the index from the latest stored Reading
AckUpdate_refresh(a) ==
  [a EXCEPT !.acknowledged = TRUE,
            !.aqi.value = IF history = << >> THEN a.aqi.value
                          ELSE history[Len(history)].aqi.value]

\* the update document { acknowledged: true }
AckUpdate(a) == [a EXCEPT !.acknowledged = TRUE]

\* PUT /api/alerts/:id/acknowledge by user u: findOneAndUpdate on
\* { _id, userId }; without a match nothing changes (404)
Acknowledge(u, id) ==
  /\ reqs < MaxRequests
  /\ reqs' = reqs + 1
  /\ UNCHANGED <<alive, adds>>
  /\ alerts' = {IF a.id = id /\ a.userId = u THEN AckUpdate(a) ELSE a : a \in alerts}
  /\ UNCHANGED <<users, history, nextId>>
  /\ UNCHANGED <<sweepVars, logVars, classVars>>

\* mutant: the delete filter is { _id } alone
DeleteAlert_anyOwner(u, id) ==
  /\ reqs < MaxRequests
  /\ reqs' = reqs + 1
  /\ UNCHANGED <<alive, adds>>
  /\ alerts' = {a \in alerts : a.id # id}
  /\ UNCHANGED <<users, history, nextId>>
  /\ UNCHANGED <<sweepVars, logVars, classVars>>

\* DELETE /api/alerts/:id by user u: findOneAndDelete on { _id, userId };
\* without a match nothing changes (404)
DeleteAlert(u, id) ==
  /\ reqs < MaxRequests
  /\ reqs' = reqs + 1
  /\ UNCHANGED <<alive, adds>>
  /\ alerts' = {a \in alerts : ~(a.id = id /\ a.userId = u)}
  /\ UNCHANGED <<users, history, nextId>>
  /\ UNCHANGED <<sweepVars, logVars, classVars>>

\* the `updateData.alertPreferences` object built from the request body
PreferencesUpdate(hasT, t, hasM, m) ==
  IF hasT /\ hasM THEN [threshold |-> t, notificationMethods |-> m]
  ELSE IF hasT THEN [threshold |-> t]
  ELSE IF hasM THEN [notificationMethods |-> m]
  ELSE << >>

\* PUT /api/users/alert-preferences by user u: { $set: { alertPreferences:
\* {...} } } replaces the stored alertPreferences object by the one built
\* from the request body
UpdateAlertPreferences(u, hasT, t, hasM, m) ==
  /\ reqs < MaxRequests
  /\ reqs' = reqs + 1
  /\ UNCHANGED <<alive, adds>>
  /\ users' = [users EXCEPT ![u].alertPreferences = PreferencesUpdate(hasT, t, hasM, m)]
  /\ UNCHANGED <<history, alerts, nextId>>
  /\ UNCHANGED <<sweepVars, logVars, classVars>>

MethodChoices ==
  {[pushNotification |-> TRUE, email |-> TRUE],
   [pushNotification |-> FALSE, email |-> FALSE]}

Next ==
  \/ Trigger(MaxSweeps)
  \/ \E s \in SweepIds : FindUsers(s)
  \/ \E s \in SweepIds : FindUsersFail(s)
  \/ \E s \in SweepIds, v \in AqiValues, pol \in Pollutants : FetchOk(s, v, pol)
  \/ \E s \in SweepIds : FetchFail(s)
  \/ \E s \in SweepIds : SaveHistory(s)
  \/ \E s \in SweepIds : SaveHistoryFail(s)
  \/ \E s \in SweepIds : SaveAlert(s)
  \/ \E s \in SweepIds : SaveAlertFail(s)
  \/ \E s \in SweepIds : SendPush(s)
  \/ \E s \in SweepIds : SendPushFail(s)
  \/ \E u \in UserIds, id \in 1..(nextId - 1) : Acknowledge(u, id)
  \/ \E u \in UserIds, id \in 1..(nextId - 1) : DeleteAlert(u, id)
  \/ \E u \in Subscribers, hasT \in BOOLEAN, t \in Thresholds,
        hasM \in BOOLEAN, m \in MethodChoices :
        UpdateAlertPreferences(u, hasT, t, hasM, m)

Spec == Init /\ [][Next]_vars

\* the scheduler and the sweeps alone, over more cycles
NextSweeps ==
  \/ Trigger(MaxCycles)
  \/ \E s \in SweepIds : FindUsers(s)
  \/ \E s \in SweepIds : FindUsersFail(s)
  \/ \E s \in SweepIds, v \in AqiValues, pol \in Pollutants : FetchOk(s, v, pol)
  \/ \E s \in SweepIds : FetchFail(s)
  \/ \E s \in SweepIds : SaveHistory(s)
  \/ \E s \in SweepIds : SaveHistoryFail(s)
  \/ \E s \in SweepIds : SaveAlert(s)
  \/ \E s \in SweepIds : SaveAlertFail(s)
  \/ \E s \in SweepIds : SendPush(s)
  \/ \E s \in SweepIds : SendPushFail(s)

SpecSweeps == Init /\ [][NextSweeps]_vars

\* ------------------------------------------ one subscriber, one location
\* subscriber 1 with the schema defaults (threshold 100) and one location
ScenarioUser1 == [InitUser1 EXCEPT !.locations = <<"A">>]

ScenarioInit ==
  /\ users = (1 :> ScenarioUser1) @@ (2 :> InitUser2)
  /\ history = << >>
  /\ alerts = {}
  /\ nextId = 1
  /\ started = 0
  /\ pc = [s \in SweepIds |-> "idle"]
  /\ snap = [s \in SweepIds |-> NoSnapshot]
  /\ pi = [s \in SweepIds |-> 0]
  /\ aqiData = [s \in SweepIds |-> NoData]
  /\ alertId = [s \in SweepIds |-> 0]
  /\ ti = [s \in SweepIds |-> 0]
  /\ err = [s \in SweepIds |-> "none"]
  /\ fetched = {}
  /\ recorded = {}
  /\ raised = {}
  /\ pushed = {}
  /\ reqs = 0
  /\ alive = TRUE
  /\ adds = NoAdds
  /\ v1 = 0 /\ v2 = 0 /\ c1 = "none" /\ c2 = "none"

\* the sweeps of the three-cycle scenario: the fetch of sweep s, when it
\* resolves, resolves with ScenarioReadings[s]
NextScenario ==
  \/ Trigger(Len(ScenarioReadings))
  \/ \E s \in SweepIds : FindUsers(s)
  \/ \E s \in SweepIds : FindUsersFail(s)
  \/ \E s \in DOMAIN ScenarioReadings, pol \in Pollutants :
        FetchOk(s, ScenarioReadings[s], pol)
  \/ \E s \in SweepIds : FetchFail(s)
  \/ \E s \in SweepIds : SaveHistory(s)
  \/ \E s \in SweepIds : SaveHistoryFail(s)
  \/ \E s \in SweepIds : SaveAlert(s)
  \/ \E s \in SweepIds : SaveAlertFail(s)
  \/ \E s \in SweepIds : SendPush(s)
  \/ \E s \in SweepIds : SendPushFail(s)

SpecScenario == ScenarioInit /\ [][NextScenario]_vars

\* repeated sweeps over the one location, any readings
NextRepeat ==
  \/ Trigger(MaxRepeats)
  \/ \E s \in SweepIds : FindUsers(s)
  \/ \E s \in SweepIds : FindUsersFail(s)
  \/ \E s \in SweepIds, v \in AqiValues, pol \in Pollutants : FetchOk(s, v, pol)
  \/ \E s \in SweepIds : FetchFail(s)
  \/ \E s \in SweepIds : SaveHistory(s)
  \/ \E s \in SweepIds : SaveHistoryFail(s)
  \/ \E s \in SweepIds : SaveAlert(s)
  \/ \E s \in SweepIds : SaveAlertFail(s)
  \/ \E s \in SweepIds : SendPush(s)
  \/ \E s \in SweepIds : SendPushFail(s)

SpecRepeat == ScenarioInit /\ [][NextRepeat]_vars

\* --------------------------------------------- preferences already stored
\* the alertPreferences a subscriber may have stored by an earlier
\* PUT /alert-preferences that carried both fields, or never have touched
StoredPreferences ==
  {DefaultPreferences} \cup
  {PreferencesUpdate(TRUE, t, TRUE, m) : t \in Thresholds, m \in MethodChoices}

PreferencesInit ==
  /\ users \in {(1 :> [InitUser1 EXCEPT !.alertPreferences = p]) @@ (2 :> InitUser2) :
                  p \in StoredPreferences}
  /\ history = << >>
  /\ alerts = {}
  /\ nextId = 1
  /\ started = 0
  /\ pc = [s \in SweepIds |-> "idle"]
  /\ snap = [s \in SweepIds |-> NoSnapshot]
  /\ pi = [s \in SweepIds |-> 0]
  /\ aqiData = [s \in SweepIds |-> NoData]
  /\ alertId = [s \in SweepIds |-> 0]
  /\ ti = [s \in SweepIds |-> 0]
  /\ err = [s \in SweepIds |-> "none"]
  /\ fetched = {}
  /\ recorded = {}
  /\ raised = {}
  /\ pushed = {}
  /\ reqs = 0
  /\ alive = TRUE
  /\ adds = NoAdds
  /\ v1 = 0 /\ v2 = 0 /\ c1 = "none" /\ c2 = "none"

SpecPreferences == PreferencesInit /\ [][Next]_vars

\* the sweeps over the one location and the alert routes
NextAlerts ==
  \/ NextRepeat
  \/ \E u \in UserIds, id \in 1..(nextId - 1) : Acknowledge(u, id)
  \/ \E u \in UserIds, id \in 1..(nextId - 1) : DeleteAlert(u, id)

SpecAlerts == ScenarioInit /\ [][NextAlerts]_vars

\* --------------------------------------------- the process and its job
\* checkAirQualityAndAlert is handed to scheduleJob as it is and no
\* 'unhandledRejection' handler is installed: when the invocation of sweep s
\* has rejected, the rejection is unhandled.  The runtime either prints a
\* warning and the process goes on (no step), or it raises the rejection
\* as an uncaught exception and the process exits, with it the scheduler
\* and every sweep and request in flight.
Exit(s) ==
  /\ alive
  /\ pc[s] = "failed"
  /\ alive' = FALSE
  /\ UNCHANGED <<reqs, adds, dbVars, sweepVars, logVars, classVars>>

\* the sweeps over the one location, in a process that runs until it exits
NextSchedule ==
  \/ alive /\ NextRepeat
  \/ \E s \in SweepIds : Exit(s)

SpecSchedule == ScenarioInit /\ [][NextSchedule]_vars

\* ------------------------------------------------------- POST /locations
\* Here the location subdocuments are written out with their isPrimary flag;
\* the sweep reads only what identifies a location, which is why the other
\* specifications keep a location as its name.
LocationsInit ==
  /\ users = (1 :> [InitUser1 EXCEPT !.locations = << >>]) @@ (2 :> InitUser2)
  /\ history = << >>
  /\ alerts = {}
  /\ nextId = 1
  /\ started = 0
  /\ pc = [s \in SweepIds |-> "idle"]
  /\ snap = [s \in SweepIds |-> NoSnapshot]
  /\ pi = [s \in SweepIds |-> 0]
  /\ aqiData = [s \in SweepIds |-> NoData]
  /\ alertId = [s \in SweepIds |-> 0]
  /\ ti = [s \in SweepIds |-> 0]
  /\ err = [s \in SweepIds |-> "none"]
  /\ fetched = {}
  /\ recorded = {}
  /\ raised = {}
  /\ pushed = {}
  /\ reqs = 0
  /\ alive = TRUE
  /\ adds = NoAdds
  /\ v1 = 0 /\ v2 = 0 /\ c1 = "none" /\ c2 = "none"

\* { $set: { 'locations.$[].isPrimary': false } }
ClearedPrimary(locations) ==
  [i \in DOMAIN locations |-> [locations[i] EXCEPT !.isPrimary = FALSE]]

\* request r of subscriber u arrives with a valid body; newLocation is
\* built, and the handler is suspended at the updateOne when isPrimary is
\* set, at the $push otherwise
PostLocation(r, u, isPrimary) ==
  /\ adds[r].pc = "idle"
  /\ \A q \in AddIds : q < r => adds[q].pc # "idle"
  /\ adds' = [adds EXCEPT ![r] = [pc |-> IF isPrimary THEN "clear" ELSE "push",
                                   name |-> AddNames[r], isPrimary |-> isPrimary]]
  /\ UNCHANGED <<reqs, alive, dbVars, sweepVars, logVars, classVars>>

\* User.updateOne resolves: every stored location is non-primary
ClearPrimary(r, u) ==
  /\ adds[r].pc = "clear"
  /\ users' = [users EXCEPT ![u].locations = ClearedPrimary(users[u].locations)]
  /\ adds' = [adds EXCEPT ![r].pc = "push"]
  /\ UNCHANGED <<history, alerts, nextId>>
  /\ UNCHANGED <<reqs, alive, sweepVars, logVars, classVars>>

\* User.findByIdAndUpdate with $push resolves: newLocation is appended
PushLocation(r, u) ==
  /\ adds[r].pc = "push"
  /\ users' = [users EXCEPT ![u].locations =
                 Append(users[u].locations,
                        [name |-> adds[r].name, isPrimary |-> adds[r].isPrimary])]
  /\ adds' = [adds EXCEPT ![r].pc = "done"]
  /\ UNCHANGED <<history, alerts, nextId>>
  /\ UNCHANGED <<reqs, alive, sweepVars, logVars, classVars>>

\* either database call rejects: the catch block answers 500
PostLocationFail(r) ==
  /\ adds[r].pc \in {"clear", "push"}
  /\ adds' = [adds EXCEPT ![r].pc = "error"]
  /\ UNCHANGED <<reqs, alive, dbVars, sweepVars, logVars, classVars>>

NextLocations ==
  \/ \E r \in AddIds, u \in Subscribers, isPrimary \in BOOLEAN :
        PostLocation(r, u, isPrimary)
  \/ \E r \in AddIds, u \in Subscribers : ClearPrimary(r, u)
  \/ \E r \in AddIds, u \in Subscribers : PushLocation(r, u)
  \/ \E r \in AddIds : PostLocationFail(r)

SpecLocations == LocationsInit /\ [][NextLocations]_vars

\* ------------------------------------------------ the sweeps, with progress
\* The event loop runs every continuation whose awaited operation has
\* settled, the scheduler fires, and the database driver and the push
\* transport settle every call (they resolve or reject).  Nothing is
\* assumed of the reading source: axios.get is called without a timeout,
\* so the code gives no bound on how long a fetch stays pending.
Progress ==
  /\ WF_vars(Trigger(MaxRepeats))
  /\ \A s \in SweepIds :
       /\ WF_vars(FindUsers(s) \/ FindUsersFail(s))
       /\ WF_vars(SaveHistory(s) \/ SaveHistoryFail(s))
       /\ WF_vars(SaveAlert(s) \/ SaveAlertFail(s))
       /\ WF_vars(SendPush(s) \/ SendPushFail(s))

SpecProgress == ScenarioInit /\ [][NextRepeat]_vars /\ Progress

\* ------------------------------------------------- the classifier alone
ClassifyInit ==
  /\ MainInit
  /\ v1 \in (0 - 3)..MaxAqi
  /\ v2 \in v1..MaxAqi
  /\ c1 = "none" /\ c2 = "none"

\* getAqiCategory applied to both values
Classify ==
  /\ c1 = "none"
  /\ c1' = getAqiCategory(v1).category
  /\ c2' = getAqiCategory(v2).category
  /\ UNCHANGED <<v1, v2, dbVars, sweepVars, logVars, envVars>>

SpecClassify == ClassifyInit /\ [][Classify]_vars

\* ================================================================ properties
\* what the properties say about one sweep, read off its variables
Threshold(s, u) == snap[s][u].alertPreferences.threshold

PairIndex(s, u, loc) ==
  LET ps == Pairs(snap[s])
  IN CHOOSE k \in DOMAIN ps : ps[k] = [u |-> u, loc |-> loc]

\* the pipeline of the pair ran to its end: the loops have moved past it
Completed(s, u, loc) == PairIndex(s, u, loc) < pi[s]

\* the fetch, the history write or the alert write of the pair is still
\* outstanding, or has failed
Pending(s, u, loc) ==
  /\ PairIndex(s, u, loc) = pi[s]
  /\ \/ pc[s] \in {"fetch", "history", "alert"}
     \/ pc[s] = "failed" /\ err[s] \in {"fetch", "history", "alert"}

RaisedFor(s, u, loc) == {x \in raised : x.s = s /\ x.u = u /\ x.loc = loc}
RecordedFor(s, u, loc) == {x \in recorded : x.s = s /\ x.u = u /\ x.loc = loc}

ReadingsOf(u, loc) ==
  {i \in DOMAIN history : history[i].userId = u /\ history[i].location = loc}

\* the reading recorded last for a pair
LastReading(u, loc) ==
  history[CHOOSE i \in ReadingsOf(u, loc) : \A j \in ReadingsOf(u, loc) : j <= i]

\* C2: when the history save of a reading r2 resolves and the reading
\* recorded just before it for the same location has another category and
\* r2.index is below the subscriber's threshold, the sweep goes on to write
\* an Alert (of type `change`, with both snapshots) for r2.
C2_ChangeAlert ==
  [][\A s \in SweepIds :
       ( /\ pc[s] = "history" /\ pc'[s] \notin {"history", "failed"}
         /\ ReadingsOf(CurPair(s).u, CurPair(s).loc) # {}
         /\ LastReading(CurPair(s).u, CurPair(s).loc).aqi.category # aqiData[s].category
         /\ aqiData[s].value < Threshold(s, CurPair(s).u) )
       => pc'[s] = "alert"]_vars

\* C3: when the fetch of one pair of a sweep has failed, every other pair
\* of that sweep, those enumerated after it included, has its history
\* Reading written.
C3_PairIsolation ==
  \A s \in SweepIds :
    (pc[s] = "failed" /\ err[s] = "fetch") =>
      \A k \in DOMAIN Pairs(snap[s]) :
        k # pi[s] =>
          RecordedFor(s, Pairs(snap[s])[k].u, Pairs(snap[s])[k].loc) # {}

\* the channels of {push, email} a user document enables
EnabledChannels(user) ==
  {ch \in {"push", "email"} :
     \/ ch = "push" /\ user.alertPreferences.notificationMethods.pushNotification
     \/ ch = "email" /\ user.alertPreferences.notificationMethods.email}

\* the sweep and subscriber an Alert id was raised by
RaisedBy(id) == CHOOSE x \in raised : x.id = id

\* C4: for an Alert of a subscriber with several enabled channels, a failed
\* send on the push channel does not make the dispatch, and with it the
\* sweep, fail.
C4_ChannelIsolation ==
  \A p \in pushed :
    ( /\ ~p.ok
      /\ Cardinality(EnabledChannels(snap[p.s][RaisedBy(p.id).u])) > 1 )
    => ~(pc[p.s] = "failed" /\ err[p.s] = "push")

\* the history write of the pair is still outstanding, or has failed
HistoryOutstanding(s, u, loc) ==
  /\ PairIndex(s, u, loc) = pi[s]
  /\ \/ pc[s] = "history"
     \/ pc[s] = "failed" /\ err[s] = "history"

HistoryHas(u, loc, value) ==
  \E i \in DOMAIN history :
    /\ history[i].userId = u
    /\ history[i].location = loc
    /\ history[i].aqi.value = value

\* C5: every persisted Alert has a persisted history Reading of the same
\* subscriber and location with the same index value, and every fetched
\* reading whose history save is not outstanding or failed has its history
\* Reading, whether or not an Alert was raised for it.
C5_HistorySuperset ==
  /\ \A a \in alerts : HistoryHas(a.userId, a.location, a.aqi.value)
  /\ \A f \in fetched :
       ~HistoryOutstanding(f.s, f.u, f.loc) =>
         /\ RecordedFor(f.s, f.u, f.loc) # {}
         /\ HistoryHas(f.u, f.loc, f.value)

\* C5 witness: a sweep has finished one pair with an Alert and one without,
\* and the Alert is in the collection
C5_Witness ==
  \E f \in fetched, g \in fetched :
    /\ f.s = g.s
    /\ Completed(f.s, f.u, f.loc) /\ Completed(g.s, g.u, g.loc)
    /\ \E x \in RaisedFor(f.s, f.u, f.loc) : \E a \in alerts : a.id = x.id
    /\ RaisedFor(g.s, g.u, g.loc) = {}
    /\ HistoryHas(g.u, g.loc, g.value)

\* C6: every Alert in the collection embeds the reading it was raised for,
\* and the index value of that reading was >= the subscriber's threshold the
\* sweep evaluated it against (the first alternative of the claim; no Alert
\* is raised on a category change).
C6_AlertJustified ==
  \A a \in alerts :
    \E x \in raised :
      /\ x.id = a.id /\ x.u = a.userId /\ x.loc = a.location
      /\ x.value = a.aqi.value
      /\ a.aqi.value >= Threshold(x.s, x.u)

\* C6 witness: an Alert whose reading is below the threshold the subscriber
\* has stored since, but not below the one it was evaluated against
C6_Witness ==
  \E a \in alerts :
    /\ a.aqi.value < Hydrate(users[a.userId]).alertPreferences.threshold
    /\ a.aqi.value >= Threshold(RaisedBy(a.id).s, a.userId)

\* the dispatch of a raised Alert has finished, normally or with an error
DispatchDone(x) ==
  \/ Completed(x.s, x.u, x.loc)
  \/ pc[x.s] = "failed" /\ err[x.s] = "push" /\ alertId[x.s] = x.id

\* C7: after the dispatch of an Alert has finished its status is `sent` if
\* a send on an enabled channel succeeded, `failed` if and only if channels
\* are enabled and every one failed, and `created` if no channel is enabled.
C7_DerivedStatus ==
  \A x \in raised : \A a \in alerts :
    (a.id = x.id /\ DispatchDone(x)) =>
      LET enabled == EnabledChannels(snap[x.s][x.u])
          sentOk == \E p \in pushed : p.id = x.id /\ p.ok
          allFailed == /\ enabled = {"push"}
                       /\ ~sentOk
                       /\ \E p \in pushed : p.id = x.id /\ ~p.ok
      IN /\ sentOk => a.status = "sent"
         /\ (a.status = "failed") <=> allFailed
         /\ enabled = {} => a.status = "created"

\* the moves of the delivery state machine
StatusMoves ==
  { <<"created", "sent">>, <<"sent", "delivered">>, <<"delivered", "read">>,
    <<"created", "failed">>, <<"sent", "failed">> }

\* C8: in every step each Alert keeps its delivery state or moves it along
\* created -> sent -> delivered -> read or from created or sent to failed,
\* and no channel that is marked sent loses the mark.
C8_NoRegress ==
  [][\A a \in alerts : \A b \in alerts' :
       a.id = b.id =>
         /\ a.status = b.status \/ <<a.status, b.status>> \in StatusMoves
         /\ \A ch \in DOMAIN a.deliveryMethods :
              a.deliveryMethods[ch] => b.deliveryMethods[ch]]_vars

\* C8 witness: an Alert that has been dispatched and acknowledged
C8_Witness ==
  \E a \in alerts :
    /\ a.acknowledged
    /\ \E p \in pushed : p.id = a.id /\ p.ok
    /\ a.status = "created"

\* ---------------------------------------------------------------- classifier
\* the breakpoints as the specification words them
StatedCategory(v) ==
  IF v <= 50 THEN "Good"
  ELSE IF v <= 100 THEN "Moderate"
  ELSE IF v <= 150 THEN "Unhealthy for Sensitive Groups"
  ELSE IF v <= 200 THEN "Unhealthy"
  ELSE IF v <= 300 THEN "Very Unhealthy"
  ELSE IF v <= 500 THEN "Hazardous"
  ELSE "Extreme"

SeverityOrder ==
  << "Good", "Moderate", "Unhealthy for Sensitive Groups", "Unhealthy",
     "Very Unhealthy", "Hazardous", "Extreme" >>

Rank(c) == CHOOSE i \in DOMAIN SeverityOrder : SeverityOrder[i] = c

\* C9: getAqiCategory answers for every index value, with the first
\* breakpoint whose upper bound is >= the value and with Extreme above 500;
\* classify(50)=Good, classify(51)=Moderate, classify(500)=Hazardous,
\* classify(501)=Extreme.
C9_Breakpoints ==
  c1 # "none" =>
    /\ c1 = StatedCategory(v1)
    /\ c2 = StatedCategory(v2)
    /\ (v1 = 50 => c1 = "Good")
    /\ (v1 = 51 => c1 = "Moderate")
    /\ (v1 = 500 => c1 = "Hazardous")
    /\ (v1 = 501 => c1 = "Extreme")

\* C9 witness: the value just above the last breakpoint has been classified
C9_Witness == v1 = 500 /\ v2 = 501 /\ c1 = "Hazardous" /\ c2 = "Extreme"

\* C10: for index values v1 <= v2 the severity rank of the category of v1 is
\* at most that of v2, and each value gets one category of the ordered set.
C10_Monotone ==
  c1 # "none" =>
    /\ \E i \in DOMAIN SeverityOrder : SeverityOrder[i] = c1
    /\ \E i \in DOMAIN SeverityOrder : SeverityOrder[i] = c2
    /\ v1 <= v2
    /\ Rank(c1) <= Rank(c2)

\* C10 witness: two values classified into different tiers
C10_Witness == c1 # "none" /\ v1 < v2 /\ Rank(c1) < Rank(c2)

\* ------------------------------------------------------------ C11 .. C20
\* the sweep has fetched a reading for the pair and neither its history write
\* nor its alert write is outstanding or has failed
Decided(s, u, loc) ==
  /\ \E f \in fetched : f.s = s /\ f.u = u /\ f.loc = loc
  /\ ~Pending(s, u, loc)

AllLocations ==
  UNION {{users[u].locations[i] : i \in DOMAIN users[u].locations} : u \in UserIds}

\* the sweeps that have written a history Reading for the pair
SweepsRecorded(u, loc) == {s \in SweepIds : RecordedFor(s, u, loc) # {}}

\* every sweep that wrote for a pair wrote one Reading for it, and a sweep
\* that returned normally wrote for every pair of its snapshot
OneReadingPerPair ==
  /\ \A u \in UserIds, loc \in AllLocations :
       Cardinality(ReadingsOf(u, loc)) = Cardinality(SweepsRecorded(u, loc))
  /\ \A s \in SweepIds :
       pc[s] = "done" =>
         \A k \in DOMAIN Pairs(snap[s]) :
           RecordedFor(s, Pairs(snap[s])[k].u, Pairs(snap[s])[k].loc) # {}

\* no step modifies or removes a Reading already written
AppendOnly ==
  \A i \in DOMAIN history : i \in DOMAIN history' /\ history'[i] = history[i]

ReadingsWith(u, loc, v) == {i \in ReadingsOf(u, loc) : history[i].aqi.value = v}

\* the history writes of index value v the sweeps have made for the pair
WritesWith(u, loc, v) == {x \in recorded : x.u = u /\ x.loc = loc /\ x.value = v}

\* C14: every successful history write of a reading leaves one more stored
\* Reading, also when an identical reading is already stored: the stored
\* Readings of a pair with a given index value are as many as the writes
\* the sweeps made of it.
C14_NeverDeduplicated ==
  \A u \in UserIds, loc \in AllLocations, v \in AqiValues :
    Cardinality(ReadingsWith(u, loc, v)) = Cardinality(WritesWith(u, loc, v))

\* C14 witness: two sweeps wrote the same reading for the same pair and two
\* Readings are stored
C14_Witness ==
  \E x \in recorded, y \in recorded :
    /\ x.s # y.s /\ x.u = y.u /\ x.loc = y.loc /\ x.value = y.value
    /\ Cardinality(ReadingsWith(x.u, x.loc, x.value)) = 2
    /\ history[1] = history[2]

\* C15: once the dispatch of an Alert of a subscriber with push enabled has
\* finished, a send has been attempted for every registered device token,
\* whether or not the send for another token failed.
C15_TokenIsolation ==
  \A x \in raised :
    (PushEnabled(snap[x.s][x.u]) /\ DispatchDone(x)) =>
      \A k \in DOMAIN snap[x.s][x.u].deviceTokens :
        \E p \in pushed : p.id = x.id /\ p.token = snap[x.s][x.u].deviceTokens[k]

\* C16: a failed send on a channel does not make the sweep end in error,
\* and the sweep it happened in, once ended, has processed every pair.
C16_DeliveryContained ==
  \A p \in pushed :
    ~p.ok =>
      /\ pc[p.s] # "failed"
      /\ pc[p.s] = "done" =>
           \A k \in DOMAIN Pairs(snap[p.s]) :
             RecordedFor(p.s, Pairs(snap[p.s])[k].u, Pairs(snap[p.s])[k].loc) # {}

\* the fetches that resolved for the pair in sweep s
FetchedFor(s, u, loc) == {f \in fetched : f.s = s /\ f.u = u /\ f.loc = loc}

\* C17: a pair whose fetch failed in a sweep has in that sweep no history
\* Reading, no Alert and no notification: every Reading written is that of
\* a fetch that resolved for its pair in its sweep, every Alert that of a
\* Reading so written, every send that of an Alert so raised, and the pair
\* a sweep failed on at the fetch has none of them.
C17_FetchFailureNoOp ==
  /\ \A x \in recorded :
       \E f \in FetchedFor(x.s, x.u, x.loc) : f.value = x.value
  /\ \A x \in raised :
       /\ \E y \in RecordedFor(x.s, x.u, x.loc) : y.value = x.value
       /\ \E f \in FetchedFor(x.s, x.u, x.loc) : f.value = x.value
  /\ \A p \in pushed : \E x \in raised : x.id = p.id /\ x.s = p.s
  /\ \A s \in SweepIds :
       err[s] = "fetch" =>
         /\ pc[s] = "failed"
         /\ FetchedFor(s, CurPair(s).u, CurPair(s).loc) = {}
         /\ RecordedFor(s, CurPair(s).u, CurPair(s).loc) = {}
         /\ RaisedFor(s, CurPair(s).u, CurPair(s).loc) = {}

\* C17 witness: a sweep failed at the fetch of its second pair, after
\* writing the Reading of the first, and the history holds that one Reading
C17_Witness ==
  \E s \in SweepIds :
    /\ pc[s] = "failed" /\ err[s] = "fetch" /\ pi[s] = 2
    /\ RecordedFor(s, CurPair(s).u, CurPair(s).loc) = {}
    /\ Cardinality(recorded) = 1
    /\ Len(history) = 1

\* C18: a sweep in which a history write or an alert write failed has ended
\* rejected with that error, and a sweep that returned normally has lost no
\* write: every reading it fetched has its Reading, and its Alert when at
\* or above the threshold.
C18_PersistenceSurfaced ==
  \A s \in SweepIds :
    /\ err[s] \in {"history", "alert"} => pc[s] = "failed"
    /\ pc[s] = "done" =>
         /\ err[s] = "none"
         /\ \A f \in fetched :
              f.s = s =>
                /\ RecordedFor(s, f.u, f.loc) # {}
                /\ f.value >= Threshold(s, f.u) => RaisedFor(s, f.u, f.loc) # {}

\* C18 witness: the alert write of a sweep failed after its history write
\* went through, and the sweep has ended rejected
C18_Witness ==
  \E s \in SweepIds :
    /\ pc[s] = "failed" /\ err[s] = "alert"
    /\ RecordedFor(s, CurPair(s).u, CurPair(s).loc) # {}
    /\ RaisedFor(s, CurPair(s).u, CurPair(s).loc) = {}

\* C19: after a sweep has ended in failure the process that holds the
\* scheduler registration is still running, so that the next scheduled
\* trigger fires and starts a new sweep.
C19_ScheduleSurvives ==
  \A s \in SweepIds : pc[s] = "failed" => alive

\* the stored document of the user of the current pair, as a query at this
\* moment would hand it to the code
StoredUser(s) == Hydrate(users[CurPair(s).u])

\* C20: the threshold a pair is evaluated with and the channels its Alert is
\* dispatched on are those of the subscriber's stored preferences at that
\* moment: when the history save resolves the sweep goes on to write an
\* Alert exactly if the reading is at or above the stored threshold, and
\* when the alert save resolves it goes on to push exactly if the stored
\* preferences enable push.
C20_PreferencesCurrent ==
  [][\A s \in SweepIds :
       /\ (pc[s] = "history" /\ pc'[s] \notin {"history", "failed"}) =>
            (pc'[s] = "alert" <=> ExceedsThreshold(aqiData[s], StoredUser(s)))
       /\ (pc[s] = "alert" /\ pc'[s] \notin {"alert", "failed"}) =>
            (pc'[s] = "push" <=> PushEnabled(StoredUser(s)))]_vars

\* ------------------------------------------------------------ C21 .. C30
\* C21: a sweep suspended at the fetch of a pair does not stay there
\* forever: the fetch is given up after a bounded wait and the sweep comes
\* to its end.
C21_BoundedFetchWait ==
  \A s \in SweepIds : (pc[s] = "fetch") ~> (pc[s] \in {"done", "failed"})

\* the positions of the primary locations of user u
PrimaryOf(u) ==
  {i \in DOMAIN users[u].locations : users[u].locations[i].isPrimary}

\* C22: whatever add-location requests of a subscriber have run, and however
\* they interleaved, at most one of the subscriber's locations is primary.
C22_OnePrimary ==
  \A u \in Subscribers : Cardinality(PrimaryOf(u)) <= 1

\* the Alert with _id `id` in a collection
AlertById(coll, id) == CHOOSE a \in coll : a.id = id
AlertIds(coll) == {a.id : a \in coll}

\* the step serves an HTTP request and moves no sweep
RequestStep == reqs' = reqs + 1 /\ UNCHANGED sweepVars

\* C23: an Alert enters the collection with acknowledged = false; a step
\* changes acknowledged of a stored Alert only from false to true and only
\* when it serves a request (no sweep or dispatch step does), and such a
\* step leaves the Alert's status and deliveryMethods as they were.
C23_AcknowledgedOrthogonal ==
  [][\A id \in AlertIds(alerts') :
       IF id \notin AlertIds(alerts)
       THEN ~AlertById(alerts', id).acknowledged
       ELSE AlertById(alerts', id).acknowledged # AlertById(alerts, id).acknowledged =>
              /\ RequestStep
              /\ AlertById(alerts', id).acknowledged
              /\ AlertById(alerts', id).status = AlertById(alerts, id).status
              /\ AlertById(alerts', id).deliveryMethods =
                   AlertById(alerts, id).deliveryMethods]_vars

\* C23 witness: an Alert whose pushes were all sent has been acknowledged
\* and still has the delivery state it was created with
C23_Witness ==
  \E a \in alerts :
    /\ a.acknowledged
    /\ a.status = StatusDefault
    /\ a.deliveryMethods = DeliveryMethodsDefault
    /\ \E x \in raised : x.id = a.id /\ Completed(x.s, x.u, x.loc)

\* C24: every sweep whose fetched index for a pair is at or above the
\* threshold raises its own Alert once its writes have gone through,
\* whatever earlier sweeps raised for the pair and also when the index value
\* is the same: the Alerts of different sweeps are different documents, and
\* as many are stored as were raised.
C24_NoSuppression ==
  /\ \A f \in fetched :
       (f.value >= Threshold(f.s, f.u) /\ Decided(f.s, f.u, f.loc)) =>
         RaisedFor(f.s, f.u, f.loc) # {}
  /\ \A x \in raised, y \in raised : x.id = y.id => x = y
  /\ Cardinality(alerts) = Cardinality(raised)

\* C24 witness: two sweeps fetched the same index at the threshold for the
\* same pair and two Alerts are stored
C24_Witness ==
  \E x \in raised, y \in raised :
    /\ x.s # y.s /\ x.u = y.u /\ x.loc = y.loc /\ x.value = y.value
    /\ Cardinality(alerts) = 2

\* the sweeps in progress
Running == {s \in SweepIds : pc[s] \notin {"idle", "done", "failed"}}

\* C25 (as amended): the scheduler runs the sweeps concurrently: as long as
\* it has firings left, the next trigger can fire and start a sweep, also
\* while earlier sweeps are in progress.
C25_RunConcurrently ==
  started < MaxRepeats => ENABLED Trigger(MaxRepeats)

\* C25 witness: two sweeps are in progress together, both suspended at the
\* history write of the same pair
C25_Witness ==
  \E s \in Running, t \in Running :
    /\ s # t
    /\ pc[s] = "history" /\ pc[t] = "history"
    /\ CurPair(s) = CurPair(t)

\* C25 (as stated): at no time are two sweeps in progress together.
C25_AsStated == Cardinality(Running) <= 1

\* the sends made for the Alerts sweep s raised for the pair
PushedFor(s, u, loc) ==
  {p \in pushed : \E x \in RaisedFor(s, u, loc) : x.id = p.id}

\* C26: within a sweep the stages of a pair come in the order fetch,
\* history write, alert write, dispatch: while the fetch is outstanding
\* nothing of the pair exists, while the history write is outstanding the
\* fetch has resolved and no Alert exists, while the alert write is
\* outstanding the Reading is written and nothing has been sent, and a send
\* is outstanding or made only for an Alert already written.
C26_StageOrder ==
  /\ \A s \in Running :
       pc[s] # "find" =>
         LET u == CurPair(s).u
             loc == CurPair(s).loc
         IN /\ pc[s] = "fetch" =>
                 /\ FetchedFor(s, u, loc) = {} /\ RecordedFor(s, u, loc) = {}
                 /\ RaisedFor(s, u, loc) = {}
            /\ pc[s] = "history" =>
                 /\ FetchedFor(s, u, loc) # {} /\ RecordedFor(s, u, loc) = {}
                 /\ RaisedFor(s, u, loc) = {}
            /\ pc[s] = "alert" =>
                 /\ RecordedFor(s, u, loc) # {} /\ RaisedFor(s, u, loc) = {}
                 /\ HistoryHas(u, loc, aqiData[s].value)
            /\ pc[s] = "push" =>
                 /\ RecordedFor(s, u, loc) # {}
                 /\ \E x \in RaisedFor(s, u, loc) : x.id = alertId[s]
  /\ \A p \in pushed : \E x \in raised : x.id = p.id /\ x.id < nextId

\* C26 witness: a sweep has gone through all four stages of a pair and both
\* sends were made
C26_Witness ==
  \E s \in SweepIds, x \in raised :
    /\ x.s = s /\ Completed(s, x.u, x.loc)
    /\ FetchedFor(s, x.u, x.loc) # {} /\ RecordedFor(s, x.u, x.loc) # {}
    /\ Cardinality(PushedFor(s, x.u, x.loc)) = 2

\* C27: no step changes the reading (index value, category, pollutant)
\* embedded in an Alert that stays in the collection, be it a step of a
\* later sweep, a later history write for the same location or an
\* acknowledge request; and the Alert embeds the reading it was raised for.
C27_SnapshotStable ==
  [][/\ \A id \in AlertIds(alerts) \cap AlertIds(alerts') :
          AlertById(alerts', id).aqi = AlertById(alerts, id).aqi
     /\ \A a \in alerts' : a.aqi.value = RaisedBy(a.id)'.value]_vars

\* C27 witness: an acknowledged Alert still embeds index 100 after a later
\* sweep has written a Reading of index 40 for the same location
C27_Witness ==
  \E a \in alerts :
    /\ a.acknowledged /\ a.aqi.value = 100
    /\ ReadingsOf(a.userId, a.location) # {}
    /\ LastReading(a.userId, a.location).aqi.value = 40
    /\ \E x \in recorded : x.s # RaisedBy(a.id).s /\ x.value = 40

\* nothing of pair k of sweep s has happened: no fetch resolved, no Reading,
\* no Alert, no send
Untouched(s, k) ==
  LET u == Pairs(snap[s])[k].u
      loc == Pairs(snap[s])[k].loc
  IN /\ FetchedFor(s, u, loc) = {} /\ RecordedFor(s, u, loc) = {}
     /\ RaisedFor(s, u, loc) = {} /\ PushedFor(s, u, loc) = {}

\* C28: in every sweep the pairs with a Reading written are the first ones
\* of the enumeration order, the pairs after the current one are untouched,
\* and a sweep in which a fetch, a write or a send failed has stopped at
\* that pair for good.
C28_Prefix ==
  \A s \in SweepIds :
    /\ err[s] # "none" => pc[s] = "failed"
    /\ snap[s] # NoSnapshot =>
         \A k \in DOMAIN Pairs(snap[s]) :
           /\ k > pi[s] => Untouched(s, k)
           /\ k < pi[s] =>
                RecordedFor(s, Pairs(snap[s])[k].u, Pairs(snap[s])[k].loc) # {}

\* C28 witness: a sweep failed at a push of its first pair, whose Reading
\* and Alert are written, and its second pair is untouched
C28_Witness ==
  \E s \in SweepIds :
    /\ pc[s] = "failed" /\ err[s] = "push" /\ pi[s] = 1
    /\ Len(Pairs(snap[s])) = 2
    /\ RecordedFor(s, CurPair(s).u, CurPair(s).loc) # {}
    /\ Untouched(s, 2)

\* the alertPreferences of user u as a reader of the stored document gets
\* them, in collection `coll`
PreferencesOf(coll, u) == Hydrate(coll[u]).alertPreferences

\* C29: an alert-preferences update that carries only `threshold` leaves the
\* subscriber's notificationMethods as they were, and one that carries only
\* `notificationMethods` leaves the threshold as it was.
C29_PartialUpdateKeeps ==
  [][\A u \in Subscribers, t \in Thresholds, m \in MethodChoices :
       /\ UpdateAlertPreferences(u, TRUE, t, FALSE, m) =>
            PreferencesOf(users', u).notificationMethods =
              PreferencesOf(users, u).notificationMethods
       /\ UpdateAlertPreferences(u, FALSE, t, TRUE, m) =>
            PreferencesOf(users', u).threshold = PreferencesOf(users, u).threshold]_vars

\* the Alerts of `coll` that user u does not own
NotOwnedBy(coll, u) == {a \in coll : a.userId # u}

\* C30: an acknowledge or delete request by user u leaves every Alert that
\* u does not own in the collection and as it was, touches no Alert but the
\* one it names, and changes nothing at all when that one is not u's; a
\* step that serves no request removes no Alert.
C30_Ownership ==
  [][/\ \A u \in UserIds, id \in 1..(nextId - 1) :
          (Acknowledge(u, id) \/ DeleteAlert(u, id)) =>
            /\ NotOwnedBy(alerts', u) = NotOwnedBy(alerts, u)
            /\ \A a \in alerts : a.id # id => a \in alerts'
            /\ (\A a \in alerts : a.id = id => a.userId # u) => alerts' = alerts
     /\ ~RequestStep => AlertIds(alerts) \subseteq AlertIds(alerts')]_vars

\* C30 witness: an Alert raised for subscriber 1 has been deleted, which
\* only the request of its owner does
C30_Witness ==
  \E x \in raised : x.u = 1 /\ x.id \notin AlertIds(alerts) /\ reqs > 0
====
